---- MODULE Spec2Model ----
(***************************************************************************)
(* Partition-filter parser of deltactl (src/parse.rs).                     *)
(*                                                                         *)
(* A &str is modelled as a sequence of one-character strings.  A nom       *)
(* IResult<&str, &str> is the record [ok, fatal, out, rest]: ok = TRUE is  *)
(* Ok((rest, out)); ok = FALSE with fatal = FALSE is Err(Error), which an  *)
(* alt recovers from by trying its next alternative; ok = FALSE with       *)
(* fatal = TRUE is Err(Failure), produced by cut, which alt and opt pass   *)
(* on unchanged.                                                           *)
(***************************************************************************)
EXTENDS Integers, Sequences, FiniteSets, TLC

VARIABLES input, written, pc, result, last

vars == <<input, written, pc, result, last>>

(***************************************************************************)
(* Character classes                                                       *)
(***************************************************************************)
Lower == {"a","b","c","d","e","f","g","h","i","j","k","l","m",
          "n","o","p","q","r","s","t","u","v","w","x","y","z"}

Upper == {"A","B","C","D","E","F","G","H","I","J","K","L","M",
          "N","O","P","Q","R","S","T","U","V","W","X","Y","Z"}

Alpha == Lower \cup Upper

Digit == {"0","1","2","3","4","5","6","7","8","9"}

Alphanumeric == Alpha \cup Digit

SpaceChars == {" ", "\t"}

UpperSeq == <<"A","B","C","D","E","F","G","H","I","J","K","L","M",
              "N","O","P","Q","R","S","T","U","V","W","X","Y","Z">>

LowerSeq == <<"a","b","c","d","e","f","g","h","i","j","k","l","m",
              "n","o","p","q","r","s","t","u","v","w","x","y","z">>

\* char::to_lowercase on an ASCII character.
LowerOf(c) ==
  IF c \in Upper THEN LowerSeq[CHOOSE k \in 1..26 : UpperSeq[k] = c] ELSE c

(***************************************************************************)
(* Slices and parser results                                               *)
(***************************************************************************)
Take(s, n) == SubSeq(s, 1, n)

Drop(s, n) == SubSeq(s, n + 1, Len(s))

Ok(out, rest) == [ok |-> TRUE, fatal |-> FALSE, out |-> out, rest |-> rest]

Error == [ok |-> FALSE, fatal |-> FALSE, out |-> <<>>, rest |-> <<>>]

Failure == [ok |-> FALSE, fatal |-> TRUE, out |-> <<>>, rest |-> <<>>]

\* Length of the longest prefix of s made of characters of the class S.
Run(s, S) ==
  LET stop == {i \in 1..Len(s) : s[i] \notin S}
  IN  IF stop = {} THEN Len(s)
      ELSE (CHOOSE i \in stop : \A j \in stop : i <= j) - 1

(***************************************************************************)
(* nom primitives used by the parser                                       *)
(***************************************************************************)
\* space0: zero or more spaces or tabs; never fails.
Space0(s) == Drop(s, Run(s, SpaceChars))

\* tag(t): the input starts with exactly t.
Tag(t, s) ==
  IF Len(s) >= Len(t) /\ Take(s, Len(t)) = t
    THEN Ok(Take(s, Len(t)), Drop(s, Len(t)))
    ELSE Error

\* tag_no_case(t): the input starts with t up to letter case; the slice of
\* the input is returned, so the case as written is kept.
TagNoCase(t, s) ==
  IF /\ Len(s) >= Len(t)
     /\ \A i \in 1..Len(t) : LowerOf(s[i]) = LowerOf(t[i])
    THEN Ok(Take(s, Len(t)), Drop(s, Len(t)))
    ELSE Error

\* One or more characters of the class S (alpha1, alphanumeric1, digit1).
Many1Of(S, s) ==
  IF Run(s, S) >= 1 THEN Ok(Take(s, Run(s, S)), Drop(s, Run(s, S))) ELSE Error

\* recognize_float: opt(sign), then digit1 opt('.' opt(digit1)) or
\* '.' digit1, then opt(('e'|'E') opt(sign) cut(digit1)).
FloatSign(s) == IF Len(s) >= 1 /\ s[1] \in {"+", "-"} THEN 1 ELSE 0

\* Length of the mantissa at the head of s, 0 when neither alternative matches.
FloatMantissa(s) ==
  LET d == Run(s, Digit)
  IN  IF d >= 1
        THEN IF Len(s) > d /\ s[d + 1] = "."
               THEN d + 1 + Run(Drop(s, d + 1), Digit)
               ELSE d
        ELSE IF Len(s) >= 1 /\ s[1] = "." /\ Run(Drop(s, 1), Digit) >= 1
               THEN 1 + Run(Drop(s, 1), Digit)
               ELSE 0

\* The exponent without cut: an 'e' that no digit follows is left unconsumed.
FloatExponentNoCut(s) ==
  IF Len(s) >= 1 /\ s[1] \in {"e", "E"}
    THEN LET sg == IF Len(s) >= 2 /\ s[2] \in {"+", "-"} THEN 1 ELSE 0
             d  == Run(Drop(s, 1 + sg), Digit)
         IN  IF d >= 1 THEN 1 + sg + d ELSE 0
    ELSE 0

\* Length of the exponent at the head of s: 0 when there is no 'e'/'E',
\* -1 when the 'e' and optional sign are not followed by a digit (cut).
FloatExponent(s) ==
  IF Len(s) >= 1 /\ s[1] \in {"e", "E"}
    THEN LET sg == FloatSign(Drop(s, 1))
             d  == Run(Drop(s, 1 + sg), Digit)
         IN  IF d >= 1 THEN 1 + sg + d ELSE -1
    ELSE 0

RecognizeFloat(s) ==
  LET sg == FloatSign(s)
      m  == FloatMantissa(Drop(s, sg))
      e  == FloatExponent(Drop(s, sg + m))
  IN  IF m = 0 THEN Error
      ELSE IF e = -1 THEN Failure
      ELSE Ok(Take(s, sg + m + e), Drop(s, sg + m + e))

(***************************************************************************)
(* The three sub-parsers                                                   *)
(***************************************************************************)
\* The alternatives with tag("==") written for tag("=").
OperatorTagsDoubledEquals ==
  << [t |-> <<"=", "=">>, nocase |-> FALSE],
     [t |-> <<"!", "=">>, nocase |-> FALSE],
     [t |-> <<">", "=">>, nocase |-> FALSE],
     [t |-> <<">">>,      nocase |-> FALSE],
     [t |-> <<"<", "=">>, nocase |-> FALSE],
     [t |-> <<"<">>,      nocase |-> FALSE],
     [t |-> <<"i", "n">>, nocase |-> TRUE],
     [t |-> <<"n", "o", "t", " ", "i", "n">>, nocase |-> TRUE] >>

\* The alternatives with each one-character operator before its extension.
OperatorTagsShortFirst ==
  << [t |-> <<"=">>,      nocase |-> FALSE],
     [t |-> <<"!", "=">>, nocase |-> FALSE],
     [t |-> <<">">>,      nocase |-> FALSE],
     [t |-> <<">", "=">>, nocase |-> FALSE],
     [t |-> <<"<">>,      nocase |-> FALSE],
     [t |-> <<"<", "=">>, nocase |-> FALSE],
     [t |-> <<"i", "n">>, nocase |-> TRUE],
     [t |-> <<"n", "o", "t", " ", "i", "n">>, nocase |-> TRUE] >>

\* The alternatives of filter_operator's alt, in source order.
OperatorTags ==
  << [t |-> <<"=">>,      nocase |-> FALSE],
     [t |-> <<"!", "=">>, nocase |-> FALSE],
     [t |-> <<">", "=">>, nocase |-> FALSE],
     [t |-> <<">">>,      nocase |-> FALSE],
     [t |-> <<"<", "=">>, nocase |-> FALSE],
     [t |-> <<"<">>,      nocase |-> FALSE],
     [t |-> <<"i", "n">>, nocase |-> TRUE],
     [t |-> <<"n", "o", "t", " ", "i", "n">>, nocase |-> TRUE] >>

\* alt over a list of tags: the first alternative that matches wins.
RECURSIVE AltTags(_, _, _)
AltTags(tags, k, s) ==
  IF k > Len(tags) THEN Error
  ELSE LET r == IF tags[k].nocase THEN TagNoCase(tags[k].t, s)
                                  ELSE Tag(tags[k].t, s)
       IN  IF r.ok THEN r ELSE AltTags(tags, k + 1, s)

\* filter_operator without the trailing space0.
FilterOperatorUntrimmed(s) == AltTags(OperatorTags, 1, Space0(s))

\* terminated(preceded(space0, alt(...)), space0)
FilterOperator(s) ==
  LET r == AltTags(OperatorTags, 1, Space0(s))
  IN  IF r.ok THEN Ok(r.out, Space0(r.rest)) ELSE r

\* column_name with alpha1 written for alphanumeric1 in the tail.
ColumnNameAlphaTail(s) ==
  IF Len(s) >= 1 /\ s[1] \in Alpha \cup {"_"}
    THEN Ok(Take(s, Run(s, Alpha \cup {"_"})), Drop(s, Run(s, Alpha \cup {"_"})))
    ELSE Error

\* recognize(pair(alt((alpha1, tag("_"))),
\*                many0_count(alt((alphanumeric1, tag("_"))))))
ColumnName(s) ==
  LET a     == Many1Of(Alpha, s)
      first == IF a.ok THEN a ELSE Tag(<<"_">>, s)
  IN  IF ~first.ok THEN Error
      ELSE LET n == Len(first.out) + Run(first.rest, Alphanumeric \cup {"_"})
           IN  Ok(Take(s, n), Drop(s, n))

\* The quoted string with many0_count written for many1_count.
QuotedStringEmpty(s) ==
  IF Len(s) = 0 \/ s[1] # "'" THEN Error
  ELSE LET n == Run(Drop(s, 1), Alphanumeric \cup {"_", "-", "."})
       IN  IF Len(s) >= n + 2 /\ s[n + 2] = "'"
             THEN Ok(SubSeq(s, 2, n + 1), Drop(s, n + 2))
             ELSE Error

\* delimited(char('\''), recognize(many1_count(alt((alphanumeric1, tag("_"),
\* tag("-"), tag("."))))), char('\'')): the value is that of the middle parser.
QuotedString(s) ==
  IF Len(s) = 0 \/ s[1] # "'" THEN Error
  ELSE LET body == Many1Of(Alphanumeric \cup {"_", "-", "."}, Drop(s, 1))
       IN  IF body.ok /\ Len(body.rest) >= 1 /\ body.rest[1] = "'"
             THEN Ok(body.out, Drop(body.rest, 1))
             ELSE Error

\* alt((recognize_float, recognize(many1_count(one_of("0123456789"))),
\*      delimited(...)))
FilterField(s) ==
  LET f == RecognizeFloat(s)
  IN  IF f.ok \/ f.fatal THEN f
      ELSE LET i == Many1Of(Digit, s)
           IN  IF i.ok THEN i ELSE QuotedString(s)

(***************************************************************************)
(* filter_condition                                                        *)
(***************************************************************************)
ErrPrefix ==
  << "i","n","v","a","l","i","d"," ","p","a","r","t","i","t","i","o","n"," ",
     "f","i","l","t","e","r",":"," " >>

\* (preceded(space0, column_name), preceded(space0, filter_operator),
\*  preceded(space0, filter_field)).parse(input)
ConditionSequence(s) ==
  LET c == ColumnName(Space0(s))
  IN  IF ~c.ok THEN c
      ELSE LET o == FilterOperator(Space0(c.rest))
           IN  IF ~o.ok THEN o
               ELSE LET l == FilterField(Space0(o.rest))
                    IN  IF ~l.ok THEN l
                        ELSE Ok(<<c.out, o.out, l.out>>, l.rest)

\* filter_condition whose message does not interpolate the input.
FilterConditionBareError(s) ==
  LET res == ConditionSequence(s)
  IN  IF res.ok THEN [ok |-> TRUE,  value |-> res.out, msg |-> <<>>]
                ELSE [ok |-> FALSE, value |-> <<>>,    msg |-> ErrPrefix]

\* filter_condition that rejects unconsumed input (all_consuming).
FilterConditionAllConsuming(s) ==
  LET res == ConditionSequence(s)
  IN  IF res.ok /\ res.rest = <<>>
        THEN [ok |-> TRUE,  value |-> res.out, msg |-> <<>>]
        ELSE [ok |-> FALSE, value |-> <<>>,    msg |-> ErrPrefix \o s]

\* match res { Ok((_, value)) => Ok(value), Err(_) => Err(anyhow!(...)) }
FilterCondition(s) ==
  LET res == ConditionSequence(s)
  IN  IF res.ok THEN [ok |-> TRUE,  value |-> res.out, msg |-> <<>>]
                ELSE [ok |-> FALSE, value |-> <<>>,    msg |-> ErrPrefix \o s]

(***************************************************************************)
(* Inputs                                                                  *)
(*                                                                         *)
(* An input is written as leading spaces, a column text, spaces, an        *)
(* operator text, spaces and a literal text (with whatever follows it);    *)
(* `written` keeps these parts and `input` is the string handed to the     *)
(* parser.                                                                 *)
(***************************************************************************)
MaxSpaces == 2

MaxColLen == 2

MaxOpLen == 3

MaxLitLen == 4

Spaces(n) == [i \in 1..n |-> " "]

\* All strings over the alphabet A of length lo..hi.
StrOver(A, lo, hi) == UNION {[1..n -> A] : n \in lo..hi}

Compose(w) ==
  Spaces(w.lead) \o w.col \o Spaces(w.sp1) \o w.op \o Spaces(w.sp2) \o w.lit

NoParts ==
  [lead |-> 0, col |-> <<>>, sp1 |-> 0, op |-> <<>>, sp2 |-> 0, lit |-> <<>>]

NoResult == [ok |-> FALSE, fatal |-> FALSE, out |-> <<>>, rest |-> <<>>,
             value |-> <<>>, msg |-> <<>>]

\* The eight operator tokens of the specification.
EightTokens ==
  { <<"=">>,
    <<"!", "=">>,
    <<">", "=">>,
    <<">">>,
    <<"<", "=">>,
    <<"<">>,
    <<"i", "n">>,
    <<"n", "o", "t", " ", "i", "n">> }

CaseVariants ==
  { <<"I", "N">>,
    <<"I", "n">>,
    <<"i", "N">>,
    <<"N", "O", "T", " ", "I", "N">>,
    <<"N", "o", "t", " ", "I", "n">>,
    <<"n", "o", "t", " ", "I", "N">> }

WordOpTexts ==
  { <<"l", "i", "k", "e">>,
    <<"n", "o", "t", "i", "n">>,
    <<"n", "o", "t", " ", " ", "i", "n">>,
    <<"i", "n", " ", "i", "n">>,
    <<"i", "n", "n">>,
    <<"n", "o", "t">>,
    <<"i">>,
    <<"i", "s">> }

ColAlphabet == {"a", "_", "1"}

OpSymbols == {"=", "!", "<", ">"}

LitAlphabet == {"1", "e", ".", "-", "'", " "}

ColTexts == StrOver(ColAlphabet, 1, MaxColLen)

OpTexts ==
  EightTokens \cup CaseVariants \cup WordOpTexts \cup StrOver(OpSymbols, 1, MaxOpLen)

LitTexts == StrOver(LitAlphabet, 0, MaxLitLen)

SampleLits ==
  { <<"1">>,
    <<"2", "0", "0">>,
    <<"1", "9", ".", "9", "9">>,
    <<"-", "1", ".", "5", "e", "+", "3">>,
    <<"1", "E", "5">>,
    <<"'", "a", "'">>,
    <<"'", "u", "s", "-", "e", "a", "s", "t", "'">>,
    <<"'", "2", "0", "2", "4", "-", "0", "2", "-", "2", "1", "'">>,
    <<"'", "s", "o", "m", "e", "_", "s", "t", "r", "i", "n", "g", "'">>,
    <<"+", "5">>,
    <<"-", "5">>,
    <<".", "5">>,
    <<"5", ".">> }

\* Every column text against every operator text, at each distance.
JunctionInputs ==
  [lead : {0}, col : ColTexts, sp1 : 0..MaxSpaces, op : OpTexts, sp2 : {1},
   lit : {<<"1">>}]

\* Every spacing of a well-formed condition.
SpacingInputs ==
  [lead : 0..MaxSpaces, col : {<<"i", "d">>}, sp1 : 0..MaxSpaces,
   op : EightTokens \cup CaseVariants, sp2 : 0..MaxSpaces, lit : SampleLits]

\* Every literal text, and what may follow a literal, after an operator.
LiteralInputs ==
  [lead : {0}, col : {<<"a">>}, sp1 : {1},
   op : {<<"=">>, <<">", "=">>}, sp2 : {0, 1},
   lit : LitTexts]

\* The scenarios of the specification and of the tests.
SampleInputs ==
  { [lead |-> 0, col |-> <<"i", "d">>, sp1 |-> 1, op |-> <<">">>, sp2 |-> 1, lit |-> <<"2", "0", "0">>],
    [lead |-> 0, col |-> <<"i", "d">>, sp1 |-> 1, op |-> <<">", "=">>, sp2 |-> 1, lit |-> <<"2", "0", "0">>],
    [lead |-> 1, col |-> <<"i", "d">>, sp1 |-> 2, op |-> <<">">>, sp2 |-> 3, lit |-> <<"2", "0", "0">>],
    [lead |-> 0, col |-> <<"s", "t", "a", "t", "u", "s">>, sp1 |-> 1, op |-> <<"i", "n">>, sp2 |-> 0, lit |-> <<>>],
    [lead |-> 0, col |-> <<"1", "c", "o", "l">>, sp1 |-> 1, op |-> <<">">>, sp2 |-> 1, lit |-> <<"5">>],
    [lead |-> 0, col |-> <<"p", "r", "i", "c", "e">>, sp1 |-> 1, op |-> <<"<", "=">>, sp2 |-> 1, lit |-> <<"1", "9", ".", "9", "9">>],
    [lead |-> 0, col |-> <<"i", "d">>, sp1 |-> 1, op |-> <<">">>, sp2 |-> 1, lit |-> <<"2", "0", "0", "e">>],
    [lead |-> 0, col |-> <<"i", "d">>, sp1 |-> 1, op |-> <<"=">>, sp2 |-> 1, lit |-> <<"2", "0", "0", "e", "a", "s", "t">>],
    [lead |-> 0, col |-> <<"r", "e", "g", "i", "o", "n">>, sp1 |-> 1, op |-> <<"=">>, sp2 |-> 1, lit |-> <<"'", "u", "s", "-", "e", "a", "s", "t", "'">>],
    [lead |-> 0, col |-> <<"d", "a", "y">>, sp1 |-> 1, op |-> <<"=">>, sp2 |-> 1, lit |-> <<"'", "2", "0", "2", "1", "-", "0", "1", "-", "0", "1", "'">>],
    [lead |-> 0, col |-> <<"i", "d">>, sp1 |-> 1, op |-> <<"n", "o", "t", " ", " ", "i", "n">>, sp2 |-> 1, lit |-> <<"5">>],
    [lead |-> 0, col |-> <<"i", "d">>, sp1 |-> 1, op |-> <<"l", "i", "k", "e">>, sp2 |-> 1, lit |-> <<"5">>],
    [lead |-> 0, col |-> <<"i", "d">>, sp1 |-> 0, op |-> <<"=">>, sp2 |-> 0, lit |-> <<"+", "5">>],
    [lead |-> 0, col |-> <<"x">>, sp1 |-> 1, op |-> <<"<">>, sp2 |-> 1, lit |-> <<"1", ".", "5", "E", "-", "3">>],
    [lead |-> 0, col |-> <<"A", "9", "_", "z">>, sp1 |-> 1, op |-> <<"N", "o", "t", " ", "I", "n">>, sp2 |-> 1, lit |-> <<"'", "s", "o", "m", "e", "_", "s", "t", "r", "i", "n", "g", "'">>],
    [lead |-> 0, col |-> <<"i", "d">>, sp1 |-> 1, op |-> <<">">>, sp2 |-> 1, lit |-> <<"2", "0", "0", " ", "a", "n", "d", " ", "m", "o", "r", "e">>] }

ConditionInputs ==
  JunctionInputs \cup SpacingInputs \cup LiteralInputs \cup SampleInputs

\* Inputs of filter_operator alone: every short string of operator symbols,
\* spaces and a digit, and every operator text between spaces.
OperatorInputs ==
  StrOver(OpSymbols \cup {" ", "1"}, 0, MaxOpLen)
    \cup { Spaces(a) \o o \o Spaces(b) \o t :
             a \in 0..MaxSpaces, b \in 0..MaxSpaces, o \in OpTexts,
             t \in {<<>>, <<"1">>, <<"=">>} }

FieldAlphabet == {"1", "a", "e", ".", "-", "+", "'", " "}

FieldSamples ==
  { <<"1", ".", "4", "2">>,
    <<"1", "2", "3">>,
    <<"'", "s", "o", "m", "e", "_", "s", "t", "r", "i", "n", "g", "'">>,
    <<"'", "2", "0", "2", "4", "-", "0", "2", "-", "2", "1", "'">>,
    <<"t", "r", "u", "e">>,
    <<"n", "u", "l", "l">>,
    <<"(", "1", ",", "2", ")">>,
    <<"-", "1", ".", "5", "E", "+", "1", "0">>,
    <<"1", "_", "0", "0", "0">>,
    <<"'", "i", "t", "'", "'", "s", "'">> }

\* Inputs of filter_field alone.
FieldInputs == StrOver(FieldAlphabet, 0, MaxLitLen) \cup FieldSamples

(***************************************************************************)
(* The calls                                                               *)
(***************************************************************************)
Init ==
  /\ written \in ConditionInputs
  /\ input = Compose(written)
  /\ pc = "filter_condition"
  /\ result = NoResult
  /\ last = <<>>

InitOperator ==
  /\ written = NoParts
  /\ input \in OperatorInputs
  /\ pc = "filter_operator"
  /\ result = NoResult
  /\ last = <<>>

InitField ==
  /\ written = NoParts
  /\ input \in FieldInputs
  /\ pc = "filter_field"
  /\ result = NoResult
  /\ last = <<>>

CallFilterCondition ==
  /\ pc = "filter_condition"
  /\ result' = FilterCondition(input)
  /\ pc' = "done"
  /\ UNCHANGED <<input, written, last>>

CallFilterOperator ==
  /\ pc = "filter_operator"
  /\ result' = FilterOperator(input)
  /\ pc' = "done"
  /\ UNCHANGED <<input, written, last>>

CallFilterField ==
  /\ pc = "filter_field"
  /\ result' = FilterField(input)
  /\ pc' = "done"
  /\ UNCHANGED <<input, written, last>>

\* The triple written back as "<col> <op> <lit>", single-space separated.
FormatTriple(v) == v[1] \o <<" ">> \o v[2] \o <<" ">> \o v[3]

\* A successful triple is formatted and handed to filter_condition again.
Reformat ==
  /\ pc = "done"
  /\ result.ok
  /\ last = <<>>
  /\ last' = result.value
  /\ written' = [lead |-> 0, col |-> result.value[1], sp1 |-> 1,
                 op |-> result.value[2], sp2 |-> 1, lit |-> result.value[3]]
  /\ input' = FormatTriple(result.value)
  /\ pc' = "filter_condition"
  /\ result' = NoResult

Next == CallFilterCondition \/ Reformat

Spec == Init /\ [][Next]_vars

NextOperator == CallFilterOperator

SpecOperator == InitOperator /\ [][NextOperator]_vars

NextField == CallFilterField

SpecField == InitField /\ [][NextField]_vars

(***************************************************************************)
(* The vocabulary of the specification, stated without the parser          *)
(***************************************************************************)
AllIn(s, S) == \A i \in 1..Len(s) : s[i] \in S

Lowered(s) == [i \in 1..Len(s) |-> LowerOf(s[i])]

\* ASCII letter or underscore, then letters, digits or underscores.
IsIdentifier(s) ==
  /\ Len(s) >= 1
  /\ s[1] \in Alpha \cup {"_"}
  /\ AllIn(s, Alphanumeric \cup {"_"})

\* One of the eight tokens, in / not in in any letter case.
IsOperatorToken(o) == Lowered(o) \in EightTokens

\* One or more ASCII digits, no sign, no separators.
IsInteger(s) == Len(s) >= 1 /\ AllIn(s, Digit)

\* Length of an exponent (e or E, optional sign, digits) at the head of s, or 0.
ExponentLen(s) ==
  IF Len(s) >= 2 /\ s[1] \in {"e", "E"}
    THEN LET g == IF s[2] \in {"+", "-"} THEN 1 ELSE 0
             n == Run(Drop(s, 1 + g), Digit)
         IN  IF n >= 1 THEN 1 + g + n ELSE 0
    ELSE 0

QuotedChars == Alphanumeric \cup {"_", "-", "."}

\* Single quotes around one or more characters of QuotedChars.
IsQuoted(s) ==
  /\ Len(s) >= 3
  /\ s[1] = "'"
  /\ s[Len(s)] = "'"
  /\ AllIn(SubSeq(s, 2, Len(s) - 1), QuotedChars)

\* A number as the code takes it: optional sign, then digits with an optional
\* '.' and optional digits, or '.' and digits, then an optional exponent.
IsNumber(s) ==
  LET sg == IF Len(s) >= 1 /\ s[1] \in {"+", "-"} THEN 1 ELSE 0
      b  == Drop(s, sg)
      d  == Run(b, Digit)
      m  == IF d >= 1
              THEN IF Len(b) > d /\ b[d + 1] = "."
                     THEN d + 1 + Run(Drop(b, d + 1), Digit) ELSE d
              ELSE IF Len(b) >= 2 /\ b[1] = "." /\ b[2] \in Digit
                     THEN 1 + Run(Drop(b, 1), Digit) ELSE 0
      e  == ExponentLen(Drop(b, m))
  IN  m >= 1 /\ sg + m + e = Len(s)

\* A float: a number with a fractional part ('.') and/or an exponent.
IsFloat(s) == IsNumber(s) /\ \E i \in 1..Len(s) : s[i] \in {".", "e", "E"}

\* One of the three literal shapes of the specification.
IsLiteral(s) == IsFloat(s) \/ IsInteger(s) \/ IsQuoted(s)

\* The text without leading and trailing space characters.
Trim(s) ==
  LET keep == {i \in 1..Len(s) : s[i] # " "}
  IN  IF keep = {} THEN <<>>
      ELSE SubSeq(s, CHOOSE i \in keep : \A j \in keep : i <= j,
                     CHOOSE i \in keep : \A j \in keep : i >= j)

TrimLeft(s) ==
  LET keep == {i \in 1..Len(s) : s[i] # " "}
  IN  IF keep = {} THEN <<>>
      ELSE SubSeq(s, CHOOSE i \in keep : \A j \in keep : i <= j, Len(s))

StartsWith(s, t) == Len(s) >= Len(t) /\ SubSeq(s, 1, Len(t)) = t

\* The invalid-filter error for the input s.
IsInvalidFilter(r, s) == ~r.ok /\ r.value = <<>> /\ r.msg = ErrPrefix \o s

\* The input was written as a column name and one of the eight tokens.
WellWritten ==
  /\ IsIdentifier(written.col)
  /\ written.op \in EightTokens

WordOperator(o) == Lowered(o) \in {<<"i", "n">>, <<"n", "o", "t", " ", "i", "n">>}

(***************************************************************************)
(* C1                                                                      *)
(***************************************************************************)
\* C1 as stated, on the inputs whose literal is a number (quoted literals are
\* the subject of C2): a column name, one of the eight tokens and an integer
\* or float, with any number of spaces before and between them, parse to
\* exactly (col, op, lit).
C1_AnySpacingParses ==
  (pc = "done" /\ WellWritten /\ (IsFloat(written.lit) \/ IsInteger(written.lit)))
    => (result.ok /\ result.value = <<written.col, written.op, written.lit>>)

\* C1, amended: the same inputs, with at least one space between the column
\* name and a word operator (in, not in), parse to (col, op, l), where l is
\* the literal as written for a number and the text between the quotes for a
\* quoted string.
C1_SpacedWordOperatorParses ==
  (/\ pc = "done"
   /\ WellWritten
   /\ IsLiteral(written.lit)
   /\ (WordOperator(written.op) => written.sp1 >= 1))
    => /\ result.ok
       /\ result.value[1] = written.col
       /\ result.value[2] = written.op
       /\ result.value[3] = IF IsQuoted(written.lit)
                              THEN SubSeq(written.lit, 2, Len(written.lit) - 1)
                              ELSE written.lit

\* A float after a symbol operator with no space on either side of it, and
\* two leading spaces, has been parsed.
C1_Witness ==
  /\ pc = "done"
  /\ WellWritten
  /\ IsFloat(written.lit)
  /\ written.lead = 2 /\ written.sp1 = 0 /\ written.sp2 = 0
  /\ result.ok

(***************************************************************************)
(* C2                                                                      *)
(***************************************************************************)
\* C2: filter_field on a quoted string 'c' returns the text with both quotes.
C2_QuotesKept ==
  (pc = "done" /\ IsQuoted(input)) => (result.ok /\ result.out = input)

(***************************************************************************)
(* C3                                                                      *)
(***************************************************************************)
\* The sub-parse that fails on s, "none" when all three succeed.
FailingSubParse(s) ==
  LET c == ColumnName(Space0(s))
  IN  IF ~c.ok THEN "column"
      ELSE LET o == FilterOperator(Space0(c.rest))
           IN  IF ~o.ok THEN "operator"
               ELSE IF ~FilterField(Space0(o.rest)).ok THEN "literal"
               ELSE "none"

\* C3: when a sub-parse fails the result is the error whose message is
\* "invalid partition filter: " followed by the whole input, and no triple;
\* a result is a triple only when no sub-parse fails.
C3_FailureIsInvalidFilter ==
  pc = "done"
    => /\ FailingSubParse(input) # "none" => IsInvalidFilter(result, input)
       /\ result.ok => (FailingSubParse(input) = "none" /\ Len(result.value) = 3)
       /\ Trim(written.lit) = <<>> => IsInvalidFilter(result, input)
       /\ (written.col # <<>> /\ written.col[1] \in Digit)
            => IsInvalidFilter(result, input)

\* "status in" has failed at its missing literal.
C3_Witness ==
  /\ pc = "done"
  /\ input = <<"s", "t", "a", "t", "u", "s", " ", "i", "n">>
  /\ FailingSubParse(input) = "literal"
  /\ ~result.ok

(***************************************************************************)
(* C4                                                                      *)
(***************************************************************************)
\* The input was written as a column name, an operator text that is none of
\* the eight tokens, and a literal; the operator text has no surrounding
\* spaces and does not run into the column name.
WrittenWithOtherOperator ==
  /\ IsIdentifier(written.col)
  /\ written.op # <<>>
  /\ written.op[1] # " " /\ written.op[Len(written.op)] # " "
  /\ (written.sp1 >= 1 \/ written.op[1] \notin Alphanumeric \cup {"_"})
  /\ ~IsOperatorToken(written.op)
  /\ IsLiteral(written.lit)

\* C4: an operator text outside the eight tokens makes filter_condition fail
\* with the invalid-filter error, and every operator a successful parse
\* returns is one of the eight tokens.
C4_OperatorSetClosed ==
  pc = "done"
    => /\ WrittenWithOtherOperator => IsInvalidFilter(result, input)
       /\ result.ok => IsOperatorToken(result.value[2])

\* "<>" between a column name and a literal has been rejected.
C4_Witness ==
  /\ pc = "done"
  /\ WrittenWithOtherOperator
  /\ written.op = <<"<", ">">>
  /\ IsInvalidFilter(result, input)

(***************************************************************************)
(* C5                                                                      *)
(***************************************************************************)
\* C5: the triple of a successful parse, formatted as "c o l" and parsed
\* again, gives the same triple.
C5_RoundTrip ==
  (pc = "done" /\ last # <<>>) => (result.ok /\ result.value = last)

(***************************************************************************)
(* C6                                                                      *)
(***************************************************************************)
\* The prefixes of s that are a column name, an operator and a literal.
ConditionPrefixes(s) ==
  {k \in 0..Len(s) : LET p == ConditionSequence(Take(s, k))
                     IN  p.ok /\ p.rest = <<>>}

\* The longest of them: the prefix that ends where the literal ends.
Longest(P) == CHOOSE k \in P : \A j \in P : j <= k

\* C6 as stated: whatever follows a prefix that is a column name, an operator
\* and a literal is ignored, and the triple of that prefix is returned instead
\* of an error.
C6_TrailingIgnored ==
  pc = "done"
    => LET P == ConditionPrefixes(input)
       IN  P # {}
             => /\ result.ok
                /\ result.value = ConditionSequence(Take(input, Longest(P))).out

\* What follows the prefix p is an exponent mark with no digit: p ends in a
\* number without exponent and t is 'e' or 'E', an optional sign, and then
\* no digit.
DanglingExponent(p, t) ==
  /\ p[Len(p)] # "'"
  /\ AllIn(ConditionSequence(p).out[3], Digit \cup {"+", "-", "."})
  /\ Len(t) >= 1
  /\ t[1] \in {"e", "E"}
  /\ LET g == IF Len(t) >= 2 /\ t[2] \in {"+", "-"} THEN 1 ELSE 0
     IN  Len(t) = 1 + g \/ t[2 + g] \notin Digit

\* C6, amended: what follows such a prefix is ignored and the triple of the
\* prefix is returned, unless the literal is a number directly followed by an
\* exponent mark with no digit; then the call fails with the invalid-filter
\* error.
C6_TrailingIgnoredUnlessDanglingExponent ==
  pc = "done"
    => LET P == ConditionPrefixes(input)
           k == Longest(P)
       IN  P # {}
             => IF DanglingExponent(Take(input, k), Drop(input, k))
                  THEN IsInvalidFilter(result, input)
                  ELSE /\ result.ok
                       /\ result.value = ConditionSequence(Take(input, k)).out

\* A triple has been returned for an input with text after the literal.
C6_Witness ==
  /\ pc = "done"
  /\ result.ok
  /\ LET P == ConditionPrefixes(input)
     IN  /\ P # {}
         /\ Longest(P) + 2 <= Len(input)
         /\ input[Longest(P) + 1] # " "

(***************************************************************************)
(* C7                                                                      *)
(***************************************************************************)
BeginsWith(s, Shape(_)) == \E k \in 1..Len(s) : Shape(Take(s, k))

\* C7 as stated, on the inputs that do not start with a quote (quoted strings
\* are the subject of C2): a literal returned is a float, an integer or a
\* quoted string, and filter_field fails on an input that begins with none
\* of the three, a sign followed only by digits included.
C7_ThreeShapesOnly ==
  (pc = "done" /\ (input = <<>> \/ input[1] # "'"))
    => /\ result.ok => IsLiteral(result.out)
       /\ ~BeginsWith(input, IsLiteral) => ~result.ok

\* C7, amended: a literal returned is a float or an integer with an optional
\* sign, at the head of the input, or the text between the quotes of a quoted
\* string at the head of the input; filter_field fails on an input that
\* begins with neither.
C7_NumberOrQuotedOnly ==
  pc = "done"
    => /\ result.ok =>
            \/ IsNumber(result.out) /\ StartsWith(input, result.out)
            \/ /\ Len(result.out) >= 1
               /\ AllIn(result.out, QuotedChars)
               /\ StartsWith(input, <<"'">> \o result.out \o <<"'">>)
       /\ ~(BeginsWith(input, IsNumber) \/ BeginsWith(input, IsQuoted))
            => ~result.ok

\* A sign followed only by digits has been returned as a literal.
C7_Witness ==
  /\ pc = "done"
  /\ result.ok
  /\ Len(input) >= 2
  /\ input[1] \in {"+", "-"}
  /\ IsInteger(Drop(input, 1))
  /\ result.out = input

(***************************************************************************)
(* C8                                                                      *)
(***************************************************************************)
\* C8: one of the eight tokens between any number of spaces is returned as
\* written, with no space around it, and the spaces are consumed.
C8_OperatorTrimmed ==
  (pc = "done" /\ IsOperatorToken(Trim(input)))
    => (result.ok /\ result.out = Trim(input) /\ result.rest = <<>>)

\* "Not In" between spaces has been matched.
C8_Witness ==
  /\ pc = "done"
  /\ Trim(input) = <<"N", "o", "t", " ", "I", "n">>
  /\ input[1] = " " /\ input[Len(input)] = " "
  /\ result.ok

(***************************************************************************)
(* C9                                                                      *)
(***************************************************************************)
\* C9: at ">=", "<=" or "!=" the two-character operator is returned and what
\* is left starts after the '='; ">" or "<" is returned only when the next
\* character is not '='.
C9_LongestOperator ==
  pc = "done"
    => LET s == TrimLeft(input)
       IN  /\ \A t \in {<<">", "=">>, <<"<", "=">>, <<"!", "=">>} :
                StartsWith(s, t)
                  => /\ result.ok
                     /\ result.out = t
                     /\ result.rest = TrimLeft(Drop(s, 2))
           /\ (result.ok /\ result.out \in {<<">">>, <<"<">>})
                => (Len(s) = 1 \/ s[2] # "=")

\* ">=" before a digit has been matched whole.
C9_Witness ==
  /\ pc = "done"
  /\ StartsWith(input, <<">", "=">>)
  /\ result.ok
  /\ result.out = <<">", "=">>
  /\ result.rest = <<"1">>

(***************************************************************************)
(* C10                                                                     *)
(***************************************************************************)
\* Digits, optionally a fractional part, then 'e' or 'E', an optional sign
\* and no digit.
IncompleteExponent(l) ==
  LET d == Run(l, Digit)
      a == Drop(l, d)
      f == IF Len(a) >= 1 /\ a[1] = "." THEN 1 + Run(Drop(a, 1), Digit) ELSE 0
      b == Drop(a, f)
      g == IF Len(b) >= 2 /\ b[2] \in {"+", "-"} THEN 1 ELSE 0
  IN  /\ d >= 1
      /\ Len(b) >= 1
      /\ b[1] \in {"e", "E"}
      /\ (Len(b) = 1 + g \/ b[2 + g] \notin Digit)

\* C10: a number followed by an exponent mark that no digit follows makes
\* filter_condition fail for the whole input; the integer alternative is not
\* tried.
C10_ExponentCommitted ==
  (/\ pc = "done"
   /\ IsIdentifier(written.col)
   /\ IsOperatorToken(written.op)
   /\ (WordOperator(written.op) => written.sp1 >= 1)
   /\ IncompleteExponent(written.lit))
    => IsInvalidFilter(result, input)

\* "id = 200east" has been rejected.
C10_Witness ==
  /\ pc = "done"
  /\ written.lit = <<"2", "0", "0", "e", "a", "s", "t">>
  /\ IncompleteExponent(written.lit)
  /\ IsInvalidFilter(result, input)

====
